---------------------------- MODULE Spec2Model ----------------------------
(***************************************************************************)
(* Model of pkg/connector/handlebsky.go of the Bluesky chat bridge: the    *)
(* event dispatcher (HandleEvent, HandleNewMessage), the detail extractor  *)
(* (parseMessageDetails) and the converters (convertMessage,               *)
(* blueskyEmbedToMatrix, recordValueDecoder).                              *)
(*                                                                         *)
(* Go pointers are modelled as sequences of length 0 (nil) or 1 (the       *)
(* pointee).  A Go value of type `any` is a record whose field `type`      *)
(* names the dynamic type and whose field `ptr` is the pointer it holds.   *)
(* A Go function that can panic returns a record whose `outcome` is        *)
(* "panic"; nil dereferences and index-out-of-range accesses are the       *)
(* runtime panics of the Go language.                                      *)
(***************************************************************************)
EXTENDS Integers, Sequences, FiniteSets, TLC

(***************************************************************************)
(* State                                                                   *)
(***************************************************************************)
VARIABLES
    queue,         \* the messages handed to UserLogin.QueueRemoteEvent, in order
    handled,       \* the number of log entries HandleEvent was called with
    resolveCalls,  \* the number of calls of the sender resolver so far
    last,          \* the last call of HandleEvent: its entry, the resolver's
                   \* answer and the call's effect
    delivered,     \* how many queued messages the bridge has converted
    lastConv,      \* the last conversion of a queued message: its index in the
                   \* queue and the result of its ConvertMessageFunc
    call,          \* a direct call of one converter: the function and its argument
    result,        \* the result of that call, once it has returned
    replayed       \* the upstream log as replayed so far: each entry HandleEvent
                   \* was called with, and what the call enqueued

vars == <<queue, handled, resolveCalls, last, delivered, lastConv, call, result, replayed>>

(***************************************************************************)
(* Pointers and interface values                                           *)
(***************************************************************************)
Nil == <<>>

Ptr(x) == <<x>>

IsNil(p) == Len(p) = 0

Deref(p) == p[1]

\* The nil interface value: an `any` holding no dynamic type at all.
NilAny == [type |-> "nil", ptr |-> Nil]

\* An `any` holding a pointer p of dynamic type t (p may be a nil pointer).
Iface(t, p) == [type |-> t, ptr |-> p]

T_MessageView == "*chat.ConvoDefs_MessageView"

T_DeletedMessageView == "*chat.ConvoDefs_DeletedMessageView"

T_ViewRecordUnion == "*bsky.EmbedRecord_View_Record"

T_FeedPost == "*bsky.FeedPost"

(***************************************************************************)
(* syntax.ParseDatetimeTime and time.Time                                  *)
(***************************************************************************)
Digits == {"0", "1", "2", "3", "4", "5", "6", "7", "8", "9"}

DigitVal(c) ==
    CASE c = "0" -> 0 [] c = "1" -> 1 [] c = "2" -> 2 [] c = "3" -> 3
      [] c = "4" -> 4 [] c = "5" -> 5 [] c = "6" -> 6 [] c = "7" -> 7
      [] c = "8" -> 8 [] c = "9" -> 9

Ch(s, i) == SubSeq(s, i, i)

\* The decimal value of the two digits of s at positions i, i+1.
Num2(s, i) == 10 * DigitVal(Ch(s, i)) + DigitVal(Ch(s, i + 1))

Num4(s, i) == 100 * Num2(s, i) + Num2(s, i + 2)

\* The number of leading digit characters of s from position i on.
RECURSIVE DigitRun(_, _)
DigitRun(s, i) ==
    IF i <= Len(s) /\ Ch(s, i) \in Digits THEN 1 + DigitRun(s, i + 1) ELSE 0

\* The first nine fraction digits of s (n digits from position i), scaled to
\* nanoseconds: time.parseNanoseconds cuts the digits after the ninth.
RECURSIVE FracNanos(_, _, _, _)
FracNanos(s, i, n, k) ==
    IF k > 9 THEN 0
    ELSE (IF k <= n THEN DigitVal(Ch(s, i + k - 1)) ELSE 0) * (10 ^ (9 - k))
         + FracNanos(s, i, n, k + 1)

IsLeap(y) == (y % 4 = 0 /\ y % 100 # 0) \/ y % 400 = 0

DaysIn(y, m) ==
    CASE m = 2 -> IF IsLeap(y) THEN 29 ELSE 28
      [] m \in {4, 6, 9, 11} -> 30
      [] OTHER -> 31

RECURSIVE DaysBeforeMonth(_, _)
DaysBeforeMonth(y, m) ==
    IF m <= 1 THEN 0 ELSE DaysIn(y, m - 1) + DaysBeforeMonth(y, m - 1)

\* Days from 0000-01-01 to the first day of year y (proleptic Gregorian).
DaysBeforeYear(y) ==
    365 * y + ((y + 3) \div 4) - ((y + 99) \div 100) + ((y + 399) \div 400)

\* Days from 1970-01-01 to y-m-d.
EpochDays(y, m, d) ==
    DaysBeforeYear(y) + DaysBeforeMonth(y, m) + (d - 1) - 719528

\* The zone designator from position z to the end: Z | [+-][0-2][0-9]:[0-5][0-9]
ZoneMatches(s, z) ==
    \/ Len(s) = z /\ Ch(s, z) = "Z"
    \/ /\ Len(s) = z + 5
       /\ Ch(s, z) \in {"+", "-"}
       /\ Ch(s, z + 1) \in {"0", "1", "2"}
       /\ Ch(s, z + 2) \in Digits
       /\ Ch(s, z + 3) = ":"
       /\ Ch(s, z + 4) \in {"0", "1", "2", "3", "4", "5"}
       /\ Ch(s, z + 5) \in Digits

\* Where the zone designator starts in a string the regex accepts: at 20 when
\* the optional group (.[0-9]{1,20}) is absent, and else after the group's
\* separator (any character but a line break, "Z", "+" and "-" included) and
\* its digits.  The two cannot both match.
ZoneStart(s) ==
    IF ZoneMatches(s, 20) THEN 20 ELSE 21 + DigitRun(s, 21)

\* datetimeRegex of indigo's atproto/syntax:
\* ^[0-9]{4}-[01][0-9]-[0-3][0-9]T[0-2][0-9]:[0-6][0-9]:[0-6][0-9]
\*  (.[0-9]{1,20})?(Z|([+-][0-2][0-9]:[0-5][0-9]))$
DatetimeRegexMatches(s) ==
    /\ Len(s) >= 20
    /\ \A i \in {1, 2, 3, 4, 7, 10, 13, 16, 19} : Ch(s, i) \in Digits
    /\ Ch(s, 5) = "-" /\ Ch(s, 8) = "-" /\ Ch(s, 11) = "T"
    /\ Ch(s, 14) = ":" /\ Ch(s, 17) = ":"
    /\ Ch(s, 6) \in {"0", "1"}
    /\ Ch(s, 9) \in {"0", "1", "2", "3"}
    /\ Ch(s, 12) \in {"0", "1", "2"}
    /\ Ch(s, 15) \in {"0", "1", "2", "3", "4", "5", "6"}
    /\ Ch(s, 18) \in {"0", "1", "2", "3", "4", "5", "6"}
    /\ \/ ZoneMatches(s, 20)
       \/ /\ Ch(s, 20) # "\n"
          /\ DigitRun(s, 21) \in 1..20
          /\ ZoneMatches(s, 21 + DigitRun(s, 21))

HasSuffix(s, suffix) ==
    Len(s) >= Len(suffix) /\ SubSeq(s, Len(s) - Len(suffix) + 1, Len(s)) = suffix

\* time.Parse(time.RFC3339Nano, s) on a string the regex accepted: the range
\* checks of the fields, and a fraction only after "." or "," (after any other
\* separator the text that follows the seconds is not a zone and is refused).
TimeParseAccepts(s) ==
    LET z == ZoneStart(s)
    IN /\ Num2(s, 6) \in 1..12
       /\ Num2(s, 9) \in 1..DaysIn(Num4(s, 1), Num2(s, 6))
       /\ Num2(s, 12) < 24
       /\ Num2(s, 15) < 60
       /\ Num2(s, 18) < 60
       /\ (z > 20 => Ch(s, 20) \in {".", ","})
       /\ (Ch(s, z) # "Z" => Num2(s, z + 1) <= 24)

\* The offset of the zone designator, in seconds east of UTC.
ZoneOffset(s, z) ==
    IF Ch(s, z) = "Z" THEN 0
    ELSE (IF Ch(s, z) = "-" THEN -1 ELSE 1)
         * (Num2(s, z + 1) * 3600 + Num2(s, z + 4) * 60)

\* A time.Time is modelled by the instant it denotes, as the triple of the
\* day since 1970-01-01, the second of that day and the nanosecond of that
\* second, all in UTC (TLC's integers are 32 bits wide, so the instant is not
\* held as one count of nanoseconds).
TimeOf(s) ==
    LET z    == ZoneStart(s)
        secs == Num2(s, 12) * 3600 + Num2(s, 15) * 60 + Num2(s, 18) - ZoneOffset(s, z)
    IN [day  |-> EpochDays(Num4(s, 1), Num2(s, 6), Num2(s, 9)) + (secs \div 86400),
        sod  |-> secs % 86400,
        nsec |-> IF z > 20 THEN FracNanos(s, 21, z - 21, 1) ELSE 0]

\* The zero time.Time (0001-01-01T00:00:00Z), returned beside an error.
ZeroTime == [day |-> EpochDays(1, 1, 1), sod |-> 0, nsec |-> 0]

\* t.Before(u)
TimeBefore(t, u) ==
    \/ t.day < u.day
    \/ t.day = u.day /\ t.sod < u.sod
    \/ t.day = u.day /\ t.sod = u.sod /\ t.nsec < u.nsec

ParseDatetimeTime(raw) ==
    IF raw = "" THEN [err |-> "expected datetime, got empty string", t |-> ZeroTime]
    ELSE IF Len(raw) > 64 THEN [err |-> "Datetime too long", t |-> ZeroTime]
    ELSE IF ~DatetimeRegexMatches(raw)
         THEN [err |-> "Datetime syntax didn't validate via regex", t |-> ZeroTime]
    ELSE IF HasSuffix(raw, "-00:00")
         THEN [err |-> "Datetime can't use '-00:00' for UTC timezone", t |-> ZeroTime]
    ELSE IF ~TimeParseAccepts(raw) THEN [err |-> "parsing time: out of range", t |-> ZeroTime]
    ELSE [err |-> "", t |-> TimeOf(raw)]

\* An int64 too wide for a 32-bit integer is held as a two-digit numeral in
\* base 10^5: the value hi * 10^5 + lo with 0 <= lo < 10^5.
I64Less(a, b) == a.hi < b.hi \/ (a.hi = b.hi /\ a.lo < b.lo)

\* time.Time.UnixMilli: the whole milliseconds since the epoch, rounded down,
\* day * 86400000 + sod * 1000 + nsec / 10^6.
UnixMilli(t) ==
    LET msOfDay == t.sod * 1000 + (t.nsec \div 1000000)
    IN [hi |-> t.day * 864 + (msOfDay \div 100000), lo |-> msOfDay % 100000]

(***************************************************************************)
(* The converters: recordValueDecoder, blueskyEmbedToMatrix, convertMessage *)
(***************************************************************************)
\* A bridgev2.ConvertedMessagePart with its event.MessageEventContent.
Part(msgType, body, formattedBody, format) ==
    [Type |-> "m.room.message", MsgType |-> msgType, Body |-> body,
     FormattedBody |-> formattedBody, Format |-> format]

\* Stands for the HTML string literal of line 161, which is the same for
\* every embed.
EmbedFormattedBody == "<blockquote class=discord-embed>...</blockquote>"

Panic(why) == [outcome |-> "panic", why |-> why]

recordValueDecoder(recordValue) ==
    IF recordValue.type = "nil"
    THEN \* reflect.TypeOf(nil) is the nil Type; .String() on it panics
         Panic("reflect.TypeOf(nil).String()")
    ELSE IF recordValue.type = T_FeedPost
    THEN IF IsNil(recordValue.ptr) THEN Panic("nil *bsky.FeedPost")
         ELSE LET post == Deref(recordValue.ptr)
              IN IF IsNil(post.Embed) THEN Panic("nil FeedPost.Embed")
                 ELSE IF IsNil(Deref(post.Embed).EmbedImages)
                      THEN Panic("nil FeedPost_Embed.EmbedImages")
                 ELSE LET images == Deref(Deref(post.Embed).EmbedImages).Images
                      IN IF Len(images) = 0 THEN Panic("index out of range [0]")
                         ELSE IF IsNil(images[1]) THEN Panic("nil *EmbedImages_Image")
                         ELSE IF IsNil(Deref(images[1]).Image) THEN Panic("nil *util.LexBlob")
                         ELSE [outcome |-> "ok", str |-> post.Text]
    ELSE [outcome |-> "ok", str |-> "not parsed"]

blueskyEmbedToMatrix(record) ==
    IF record = NilAny
    THEN [outcome |-> "err", err |-> "record is nil"]
    ELSE IF record.type = T_ViewRecordUnion
    THEN IF IsNil(record.ptr) THEN Panic("nil *bsky.EmbedRecord_View_Record")
         ELSE LET typedRecord == Deref(record.ptr)
              IN IF IsNil(typedRecord.EmbedRecord_ViewRecord)
                 THEN Panic("nil EmbedRecord_View_Record.EmbedRecord_ViewRecord")
                 ELSE IF IsNil(Deref(typedRecord.EmbedRecord_ViewRecord).Value)
                      THEN Panic("nil EmbedRecord_ViewRecord.Value")
                 ELSE LET body == recordValueDecoder(
                                      Deref(Deref(typedRecord.EmbedRecord_ViewRecord).Value).Val)
                      IN IF body.outcome = "panic" THEN body
                         ELSE [outcome |-> "ok",
                               part |-> Part("m.text", body.str, EmbedFormattedBody,
                                             "org.matrix.custom.html")]
    ELSE [outcome |-> "err", err |-> "unhandled record type"]

\* The case *chat.ConvoDefs_MessageView of convertMessage (lines 104-126), on
\* the pointer the interface value holds.
ConvertMessageView(ptr) ==
    IF IsNil(ptr) THEN Panic("nil *chat.ConvoDefs_MessageView")
    ELSE LET typedData == Deref(ptr)
             textPart  == Part("m.text", typedData.Text, "", "")
             textParts == IF Len(typedData.Text) > 0 THEN <<textPart>> ELSE <<>>
         IN IF IsNil(typedData.Embed)
            THEN [outcome |-> "ok", branch |-> "MessageView", parts |-> textParts]
            ELSE IF IsNil(Deref(typedData.Embed).EmbedRecord_View)
                 THEN Panic("nil ConvoDefs_MessageView_Embed.EmbedRecord_View")
            ELSE LET embed == blueskyEmbedToMatrix(
                                  Iface(T_ViewRecordUnion,
                                        Deref(Deref(typedData.Embed).EmbedRecord_View).Record))
                 IN IF embed.outcome = "panic" THEN embed
                    ELSE [outcome |-> "ok", branch |-> "MessageView",
                          parts |-> (IF embed.outcome = "ok" THEN <<embed.part>> ELSE <<>>)
                                    \o textParts]

\* Mutant: the type switch has no case for the deleted view.
convertMessage_NoDeletedCase(data) ==
    IF data.type = T_MessageView THEN ConvertMessageView(data.ptr)
    ELSE [outcome |-> "ok", branch |-> "default",
          parts |-> <<Part("m.notice", "Unsupported message", "", "")>>]

\* The result names the branch of the type switch that was taken.
convertMessage(data) ==
    IF data.type = T_MessageView THEN ConvertMessageView(data.ptr)
    ELSE IF data.type = T_DeletedMessageView
    THEN [outcome |-> "ok", branch |-> "DeletedMessageView",
          parts |-> <<Part("m.notice", "Deleted message", "", "")>>]
    ELSE [outcome |-> "ok", branch |-> "default",
          parts |-> <<Part("m.notice", "Unsupported message", "", "")>>]

(***************************************************************************)
(* The collaborators of the dispatcher that live in other files of the     *)
(* connector package.                                                      *)
(***************************************************************************)
\* The zero bridgev2.EventSender.
ZeroSender == [Sender |-> ""]

\* Sender resolution: whether it succeeds is the collaborator's answer,
\* resolverOk, given by the environment for each call.
makeEventSender(senderDID, resolverOk) ==
    IF resolverOk THEN [err |-> "", sender |-> [Sender |-> senderDID]]
    ELSE [err |-> "sender resolution failed", sender |-> ZeroSender]

\* Opaque composites of their arguments.
makePortalID(convoId) == <<"PortalID", convoId>>

makePortalKey(convoId) == <<"PortalKey", makePortalID(convoId)>>

\* Mutant: the message id is made unique per delivery with the number of
\* entries handled so far.
makeMessageID_PerDelivery(portalID, msgID) == <<"MessageID", portalID, msgID, handled>>

makeMessageID(portalID, msgID) == <<"MessageID", portalID, msgID>>

(***************************************************************************)
(* The dispatcher: parseMessageDetails, HandleNewMessage, HandleEvent      *)
(***************************************************************************)
\* The named results of parseMessageDetails, and the calls it made to the
\* sender resolver.
Details(err, evtSender, sentAt, msgID, msgData, calls) ==
    [outcome |-> IF err = "" THEN "ok" ELSE "err", err |-> err,
     evtSender |-> evtSender, sentAt |-> sentAt, msgID |-> msgID,
     msgData |-> msgData, resolveCalls |-> calls]

\* Lines 89-99, once the view v of dynamic type t was chosen.
DetailsOfView(t, viewPtr, resolverOk) ==
    LET v == Deref(viewPtr)
    IN IF IsNil(v.Sender) THEN Panic("nil Sender")
       ELSE LET s == makeEventSender(Deref(v.Sender).Did, resolverOk)
                msgData == Iface(t, viewPtr)
            IN IF s.err # ""
               THEN Details("failed to parse sender DID: " \o s.err, s.sender,
                            ZeroTime, v.Id, msgData, 1)
               ELSE LET p == ParseDatetimeTime(v.SentAt)
                    IN IF p.err # ""
                       THEN Details("failed to parse sentAt: " \o p.err, s.sender,
                                    p.t, v.Id, msgData, 1)
                       ELSE Details("", s.sender, p.t, v.Id, msgData, 1)

\* Mutant: the deleted view is looked at first.
parseMessageDetails_DeletedFirst(msgView, deletedMsgView, resolverOk) ==
    IF ~IsNil(deletedMsgView)
    THEN DetailsOfView(T_DeletedMessageView, deletedMsgView, resolverOk)
    ELSE IF ~IsNil(msgView) THEN DetailsOfView(T_MessageView, msgView, resolverOk)
    ELSE Details("no message view or deleted message view", ZeroSender, ZeroTime,
                 "", NilAny, 0)

\* Mutant: the active branch stores deletedMsgView as the payload.
parseMessageDetails_WrongData(msgView, deletedMsgView, resolverOk) ==
    IF ~IsNil(msgView)
    THEN LET d == DetailsOfView(T_MessageView, msgView, resolverOk)
         IN IF d.outcome = "panic" THEN d
            ELSE [d EXCEPT !.msgData = Iface(T_DeletedMessageView, deletedMsgView)]
    ELSE IF ~IsNil(deletedMsgView)
         THEN DetailsOfView(T_DeletedMessageView, deletedMsgView, resolverOk)
    ELSE Details("no message view or deleted message view", ZeroSender, ZeroTime,
                 "", NilAny, 0)

parseMessageDetails(msgView, deletedMsgView, resolverOk) ==
    IF ~IsNil(msgView) THEN DetailsOfView(T_MessageView, msgView, resolverOk)
    ELSE IF ~IsNil(deletedMsgView)
         THEN DetailsOfView(T_DeletedMessageView, deletedMsgView, resolverOk)
    ELSE Details("no message view or deleted message view", ZeroSender, ZeroTime,
                 "", NilAny, 0)

\* What a call of the dispatcher did: how it ended, the messages it handed to
\* UserLogin.QueueRemoteEvent and the number of sender resolutions it made.
Effect(outcome, err, enq, calls) ==
    [outcome |-> outcome, err |-> err, enq |-> enq, resolveCalls |-> calls]

\* The simplevent.Message handed to QueueRemoteEvent (lines 49-68).
RemoteMessage(evt, d) ==
    [Type |-> "RemoteEventMessage",
     LogContext |-> [chat_id |-> evt.ConvoId, rev |-> evt.Rev,
                     message_id |-> d.msgID, sender_id |-> d.evtSender.Sender],
     PortalKey |-> makePortalKey(evt.ConvoId),
     Sender |-> d.evtSender,
     CreatePortal |-> TRUE,
     Timestamp |-> d.sentAt,
     StreamOrder |-> UnixMilli(d.sentAt),
     Data |-> d.msgData,
     ID |-> makeMessageID(makePortalID(evt.ConvoId), d.msgID),
     ConvertMessageFunc |-> "convertMessage"]

\* Mutant: the early return after a failed extraction is missing.
HandleNewMessage_EnqueuesOnError(evt, resolverOk) ==
    IF IsNil(evt.Message) THEN Effect("panic", "nil LogCreateMessage.Message", <<>>, 0)
    ELSE LET d == parseMessageDetails(Deref(evt.Message).ConvoDefs_MessageView,
                                      Deref(evt.Message).ConvoDefs_DeletedMessageView,
                                      resolverOk)
         IN IF d.outcome = "panic" THEN Effect("panic", d.why, <<>>, 0)
            ELSE Effect(IF d.err # "" THEN "dropped" ELSE "enqueued", d.err,
                        <<RemoteMessage(evt, d)>>, d.resolveCalls)

\* Mutant: the stream order is sentAt.Unix() * 1000, the whole seconds.
HandleNewMessage_StreamOrderSeconds(evt, resolverOk) ==
    IF IsNil(evt.Message) THEN Effect("panic", "nil LogCreateMessage.Message", <<>>, 0)
    ELSE LET d == parseMessageDetails(Deref(evt.Message).ConvoDefs_MessageView,
                                      Deref(evt.Message).ConvoDefs_DeletedMessageView,
                                      resolverOk)
         IN IF d.outcome = "panic" THEN Effect("panic", d.why, <<>>, 0)
            ELSE IF d.err # "" THEN Effect("dropped", d.err, <<>>, d.resolveCalls)
            ELSE Effect("enqueued", "",
                        << [RemoteMessage(evt, d) EXCEPT
                              !.StreamOrder = UnixMilli([d.sentAt EXCEPT !.nsec = 0])] >>,
                        d.resolveCalls)

HandleNewMessage(evt, resolverOk) ==
    IF IsNil(evt.Message) THEN Effect("panic", "nil LogCreateMessage.Message", <<>>, 0)
    ELSE LET d == parseMessageDetails(Deref(evt.Message).ConvoDefs_MessageView,
                                      Deref(evt.Message).ConvoDefs_DeletedMessageView,
                                      resolverOk)
         IN IF d.outcome = "panic" THEN Effect("panic", d.why, <<>>, 0)
            ELSE IF d.err # "" THEN Effect("dropped", d.err, <<>>, d.resolveCalls)
            ELSE Effect("enqueued", "", <<RemoteMessage(evt, d)>>, d.resolveCalls)

\* Mutant: a "message deleted" entry is dispatched like "message created".
HandleEvent_ForwardsDelete(evt, resolverOk) ==
    IF ~IsNil(evt.ConvoDefs_LogCreateMessage)
    THEN HandleNewMessage(Deref(evt.ConvoDefs_LogCreateMessage), resolverOk)
    ELSE IF ~IsNil(evt.ConvoDefs_LogDeleteMessage)
    THEN HandleNewMessage(Deref(evt.ConvoDefs_LogDeleteMessage), resolverOk)
    ELSE Effect("ignored", "", <<>>, 0)

HandleEvent(evt, resolverOk) ==
    IF ~IsNil(evt.ConvoDefs_LogCreateMessage)
    THEN HandleNewMessage(Deref(evt.ConvoDefs_LogCreateMessage), resolverOk)
    ELSE Effect("ignored", "", <<>>, 0)

(***************************************************************************)
(* The inputs: the values of the indigo API types the model explores       *)
(***************************************************************************)
\* The most entries the dispatcher handles in one behaviour.
MaxEntries == 2

\* The most entries the upstream log replays in one behaviour.
MaxReplay == 5

\* bsky.FeedPost values: with one image, and with parts of the path
\* Embed.EmbedImages.Images[0].Image missing.
Blob == Ptr([Ref |-> "bafkrei", MimeType |-> "image/jpeg"])

FeedPostWith(text, embed) == Iface(T_FeedPost, Ptr([Text |-> text, Embed |-> embed]))

ImagesEmbed(images) == Ptr([EmbedImages |-> Ptr([Images |-> images])])

PostWithImage == FeedPostWith("quoted post", ImagesEmbed(<<Ptr([Image |-> Blob])>>))

PostWithoutEmbed == FeedPostWith("quoted post", Nil)

PostWithoutImages == FeedPostWith("quoted post", ImagesEmbed(<<>>))

PostWithOtherEmbed == FeedPostWith("quoted post", Ptr([EmbedImages |-> Nil]))

PostWithBlobMissing == FeedPostWith("quoted post", ImagesEmbed(<<Ptr([Image |-> Nil])>>))

\* Record values (LexiconTypeDecoder.Val): feed posts, other record kinds, a
\* nil *bsky.FeedPost and the nil interface.
RecordValues ==
    {PostWithImage, PostWithoutEmbed, PostWithoutImages, PostWithOtherEmbed,
     PostWithBlobMissing, Iface(T_FeedPost, Nil),
     Iface("*bsky.GraphList", Ptr([Name |-> "a list"])),
     Iface("*bsky.FeedGenerator", Ptr([DisplayName |-> "a feed"])),
     NilAny}

\* The variants of the union bsky.EmbedRecord_View_Record.
UnhandledKinds ==
    {"EmbedRecord_ViewNotFound", "EmbedRecord_ViewBlocked", "EmbedRecord_ViewDetached",
     "FeedDefs_GeneratorView", "GraphDefs_ListView", "LabelerDefs_LabelerView",
     "GraphDefs_StarterPackViewBasic"}

\* The union with the variant `kind` holding p, and every other variant nil.
UnionOf(kind, p) ==
    [k \in UnhandledKinds \cup {"EmbedRecord_ViewRecord"} |-> IF k = kind THEN p ELSE Nil]

ViewRecordOf(value) == UnionOf("EmbedRecord_ViewRecord", Ptr([Uri |-> "at://quoted", Value |-> value]))

\* *bsky.EmbedRecord_View_Record pointers: a quoted post (with each record
\* value, and with no value), each unhandled kind, no variant at all, and nil.
RecordPtrs ==
    {Ptr(ViewRecordOf(Ptr([Val |-> v]))) : v \in RecordValues}
    \cup {Ptr(ViewRecordOf(Nil))}
    \cup {Ptr(UnionOf(k, Ptr([Uri |-> "at://other"]))) : k \in UnhandledKinds}
    \cup {Ptr(UnionOf("none", Nil)), Nil}

\* ConvoDefs_MessageView.Embed: none, an embed of a kind the union does not
\* know (EmbedRecord_View nil), or a record view.
Embeds ==
    {Nil, Ptr([EmbedRecord_View |-> Nil])}
    \cup {Ptr([EmbedRecord_View |-> Ptr([Record |-> r])]) : r \in RecordPtrs}

EmbedOf(recordPtr) == Ptr([EmbedRecord_View |-> Ptr([Record |-> recordPtr])])

\* Values of the parameter `record any` of blueskyEmbedToMatrix.
RecordArgs ==
    {Iface(T_ViewRecordUnion, r) : r \in RecordPtrs}
    \cup {NilAny, Iface("*bsky.EmbedRecord_ViewNotFound", Ptr([Uri |-> "at://other"])),
          Iface("*bsky.FeedDefs_GeneratorView", Ptr([Uri |-> "at://other"]))}

SenderOf(did) == Ptr([Did |-> did])

MessageView(id, sender, sentAt, text, embed) ==
    [Id |-> id, Sender |-> sender, SentAt |-> sentAt, Text |-> text, Embed |-> embed]

DeletedMessageView(id, sender, sentAt) ==
    [Id |-> id, Sender |-> sender, SentAt |-> sentAt]

\* Timestamp strings: three instants within two milliseconds, the same
\* instant written in another zone and without a fraction, an instant before
\* the epoch, and strings that strict parsing refuses.
ValidTimestamps ==
    {"2024-01-01T00:00:00.000Z", "2024-01-01T00:00:00.0004Z", "2024-01-01T00:00:00.001Z",
     "2024-01-01T01:00:00+01:00", "1969-12-31T23:59:59.9995Z"}

InvalidTimestamps ==
    {"", "yesterday", "2024-02-30T00:00:00Z", "2024-01-01T00:00:00.000-00:00"}

Timestamps == ValidTimestamps \cup InvalidTimestamps

DefaultView(text, embed) ==
    MessageView("m1", SenderOf("did:plc:abc"), "2024-01-01T00:00:00.000Z", text, embed)

\* The embeds the pipeline is driven with: a quoted post with an image, a
\* quoted post without one, a record that was not found, and no record.
PipelineEmbeds ==
    {EmbedOf(Ptr(ViewRecordOf(Ptr([Val |-> PostWithImage])))),
     EmbedOf(Ptr(ViewRecordOf(Ptr([Val |-> PostWithoutEmbed])))),
     EmbedOf(Ptr(UnionOf("EmbedRecord_ViewNotFound", Ptr([Uri |-> "at://other"])))),
     EmbedOf(Nil)}

\* Active views: each embed under a body, an empty body with and without an
\* embed, and each id, sender and timestamp.
MessageViews ==
    {DefaultView("hi", e) : e \in PipelineEmbeds \cup {Nil}}
    \cup {DefaultView("", e) : e \in {Nil, EmbedOf(Ptr(ViewRecordOf(Ptr([Val |-> PostWithImage]))))}}
    \cup {MessageView("m1", SenderOf("did:plc:abc"), t, "hello", Nil) : t \in Timestamps}
    \cup {MessageView("m2", s, "2024-01-01T00:00:00.001Z", "hello", Nil) :
            s \in {SenderOf("did:plc:xyz"), Nil}}

DeletedMessageViews ==
    {DeletedMessageView("m1", SenderOf("did:plc:xyz"), t) :
        t \in {"2024-01-01T00:00:00.001Z", "yesterday"}}
    \cup {DeletedMessageView("m3", Nil, "2024-01-01T00:00:00.000Z")}

\* chat.ConvoDefs_LogCreateMessage_Message: one variant, none, or both.
MessageUnions ==
    {[ConvoDefs_MessageView |-> Ptr(v), ConvoDefs_DeletedMessageView |-> Nil] : v \in MessageViews}
    \cup {[ConvoDefs_MessageView |-> Nil, ConvoDefs_DeletedMessageView |-> Ptr(d)] :
            d \in DeletedMessageViews}
    \cup {[ConvoDefs_MessageView |-> Nil, ConvoDefs_DeletedMessageView |-> Nil]}
    \cup {[ConvoDefs_MessageView |-> Ptr(v), ConvoDefs_DeletedMessageView |-> Ptr(d)] :
            v \in {DefaultView("hi", Nil),
                   MessageView("m2", SenderOf("did:plc:abc"), "yesterday", "hello", Nil)},
            d \in {DeletedMessageView("m3", SenderOf("did:plc:xyz"), "2024-01-01T00:00:00.001Z"),
                   DeletedMessageView("m3", SenderOf("did:plc:xyz"), "yesterday")}}

LogMessage(convoId, rev, message) == [ConvoId |-> convoId, Rev |-> rev, Message |-> message]

\* chat.ConvoDefs_LogCreateMessage values: every message in one conversation
\* and revision, one message in each conversation and revision,
\* and one message id in two conversations.
LogCreateMessages ==
    {LogMessage("c1", "r1", Ptr(m)) : m \in MessageUnions}
    \cup {LogMessage(c, r, Ptr([ConvoDefs_MessageView |-> Ptr(v), ConvoDefs_DeletedMessageView |-> Nil])) :
            c \in {"c1", "c2"}, r \in {"r1", "r2"},
            v \in {DefaultView("hi", Nil)}}
    \cup {LogMessage("c2", "r1", Ptr([ConvoDefs_MessageView |-> Ptr(v), ConvoDefs_DeletedMessageView |-> Nil])) :
            v \in {MessageView("m2", SenderOf("did:plc:xyz"), "2024-01-01T00:00:00.001Z", "hello", Nil)}}
    \cup {LogMessage("c1", "r1", Nil)}

\* The union chat.ConvoGetLog_Output_Logs_Elem with the variant `kind`
\* holding p, and every other variant nil.
LogKinds ==
    {"ConvoDefs_LogBeginConvo", "ConvoDefs_LogLeaveConvo", "ConvoDefs_LogCreateMessage",
     "ConvoDefs_LogDeleteMessage"}

LogElem(kind, p) == [k \in LogKinds |-> IF k = kind THEN p ELSE Nil]

\* Log entries: message created; begin and leave; message deleted (which
\* carries the deleted view); and an entry of a kind the union does not know.
Entries ==
    {LogElem("ConvoDefs_LogCreateMessage", Ptr(m)) : m \in LogCreateMessages}
    \cup {LogElem("ConvoDefs_LogBeginConvo", Ptr([ConvoId |-> "c1", Rev |-> "r1"])),
          LogElem("ConvoDefs_LogLeaveConvo", Ptr([ConvoId |-> "c1", Rev |-> "r2"])),
          LogElem("none", Nil)}
    \cup {LogElem("ConvoDefs_LogDeleteMessage",
                  Ptr(LogMessage("c1", "r2", Ptr([ConvoDefs_MessageView |-> Nil,
                                                  ConvoDefs_DeletedMessageView |-> Ptr(d)])))) :
            d \in {DeletedMessageView("m1", SenderOf("did:plc:abc"), "2024-01-01T00:00:00.001Z")}}

\* Values of the parameter `data any` of convertMessage: active and deleted
\* views, nil pointers of both types, the nil interface and another type.
Payloads ==
    {Iface(T_MessageView, Ptr(MessageView("m1", SenderOf("did:plc:abc"),
                                          "2024-01-01T00:00:00.000Z", text, e))) :
        text \in {"", "hi", "hello"}, e \in Embeds}
    \cup {Iface(T_DeletedMessageView, Ptr(DeletedMessageView(id, s, t))) :
            id \in {"", "m1"}, s \in {Nil, SenderOf("did:plc:abc")},
            t \in {"", "2024-01-01T00:00:00.000Z"}}
    \cup {Iface(T_MessageView, Nil), Iface(T_DeletedMessageView, Nil), NilAny,
          Iface("string", Ptr("text"))}

(***************************************************************************)
(* Initial values and placeholders                                         *)
(***************************************************************************)
NoCall == [fn |-> "none"]

Pending == [outcome |-> "pending"]

NoEntry == [op |-> "none"]

NoConv == [index |-> 0]

(***************************************************************************)
(* The event pipeline: log entries arrive at HandleEvent, and the bridge   *)
(* converts each queued message, in queue order, with the                  *)
(* ConvertMessageFunc the message carries.                                 *)
(***************************************************************************)
Init ==
    /\ queue = <<>>
    /\ handled = 0
    /\ resolveCalls = 0
    /\ last = NoEntry
    /\ delivered = 0
    /\ lastConv = NoConv
    /\ call = NoCall
    /\ result = Pending
    /\ replayed = <<>>

\* One call HandleEvent(ctx, evt).  A panic leaves the queue as it was; the
\* caller may recover and go on to the next entry, or stop.
HandleEventCall(evt, resolverOk) ==
    /\ handled < MaxEntries
    /\ LET e == HandleEvent(evt, resolverOk)
       IN /\ queue' = queue \o e.enq
          /\ resolveCalls' = resolveCalls + e.resolveCalls
          /\ last' = [op |-> "HandleEvent", entry |-> evt, resolverOk |-> resolverOk,
                      outcome |-> e.outcome, err |-> e.err]
    /\ handled' = handled + 1
    /\ UNCHANGED <<delivered, lastConv, call, result, replayed>>

\* The bridge converts the next queued message.
ConvertQueued ==
    /\ delivered < Len(queue)
    /\ LET m == queue[delivered + 1]
       IN /\ m.ConvertMessageFunc = "convertMessage"
          /\ lastConv' = [index |-> delivered + 1, result |-> convertMessage(m.Data)]
    /\ delivered' = delivered + 1
    /\ UNCHANGED <<queue, handled, resolveCalls, last, call, result, replayed>>

Next ==
    \/ \E evt \in Entries, resolverOk \in BOOLEAN : HandleEventCall(evt, resolverOk)
    \/ ConvertQueued

Spec == Init /\ [][Next]_vars

(***************************************************************************)
(* The converters called directly, each on every value of its parameter.   *)
(***************************************************************************)
Calls ==
    {[fn |-> "convertMessage", arg |-> d] : d \in Payloads}
    \cup {[fn |-> "blueskyEmbedToMatrix", arg |-> r] : r \in RecordArgs}
    \cup {[fn |-> "recordValueDecoder", arg |-> v] : v \in RecordValues}

InitConvert ==
    /\ queue = <<>>
    /\ handled = 0
    /\ resolveCalls = 0
    /\ last = NoEntry
    /\ delivered = 0
    /\ lastConv = NoConv
    /\ call \in Calls
    /\ result = Pending
    /\ replayed = <<>>

CallConvertMessage ==
    /\ result = Pending
    /\ call.fn = "convertMessage"
    /\ result' = convertMessage(call.arg)
    /\ UNCHANGED <<queue, handled, resolveCalls, last, delivered, lastConv, call, replayed>>

CallBlueskyEmbedToMatrix ==
    /\ result = Pending
    /\ call.fn = "blueskyEmbedToMatrix"
    /\ result' = blueskyEmbedToMatrix(call.arg)
    /\ UNCHANGED <<queue, handled, resolveCalls, last, delivered, lastConv, call, replayed>>

CallRecordValueDecoder ==
    /\ result = Pending
    /\ call.fn = "recordValueDecoder"
    /\ result' = recordValueDecoder(call.arg)
    /\ UNCHANGED <<queue, handled, resolveCalls, last, delivered, lastConv, call, replayed>>

NextConvert == CallConvertMessage \/ CallBlueskyEmbedToMatrix \/ CallRecordValueDecoder

SpecConvert == InitConvert /\ [][NextConvert]_vars

(***************************************************************************)
(* The log replay: the upstream log delivers entries to HandleEvent again, *)
(* whether the earlier delivery was dropped or enqueued, with other        *)
(* entries in between.                                                     *)
(***************************************************************************)
\* A "message created" entry with an active view.
CreateActive(convoId, rev, view) ==
    LogElem("ConvoDefs_LogCreateMessage",
            Ptr(LogMessage(convoId, rev, Ptr([ConvoDefs_MessageView |-> Ptr(view),
                                              ConvoDefs_DeletedMessageView |-> Nil]))))

\* A "message created" entry with a deleted view.
CreateDeleted(convoId, rev, view) ==
    LogElem("ConvoDefs_LogCreateMessage",
            Ptr(LogMessage(convoId, rev, Ptr([ConvoDefs_MessageView |-> Nil,
                                              ConvoDefs_DeletedMessageView |-> Ptr(view)]))))

\* The replayed entries: message m1 of conversation c1 as an active view, as
\* a deleted view under another revision, sender and timestamp, and with a
\* timestamp that does not parse; message m1 of conversation c2; and an
\* entry of another kind.
ReplayEntries ==
    {CreateActive("c1", "r1", DefaultView("hi", Nil)),
     CreateDeleted("c1", "r2", DeletedMessageView("m1", SenderOf("did:plc:xyz"),
                                                  "2024-01-01T00:00:00.001Z")),
     CreateActive("c1", "r3", MessageView("m1", SenderOf("did:plc:abc"), "yesterday", "hi", Nil)),
     CreateActive("c2", "r1", DefaultView("hi", Nil)),
     LogElem("ConvoDefs_LogLeaveConvo", Ptr([ConvoId |-> "c1", Rev |-> "r2"]))}

\* One call HandleEvent(ctx, evt) of the replay, recorded in the replayed log.
ReplayCall(evt, resolverOk) ==
    /\ handled < MaxReplay
    /\ LET e == HandleEvent(evt, resolverOk)
       IN /\ queue' = queue \o e.enq
          /\ resolveCalls' = resolveCalls + e.resolveCalls
          /\ last' = [op |-> "HandleEvent", entry |-> evt, resolverOk |-> resolverOk,
                      outcome |-> e.outcome, err |-> e.err]
          /\ replayed' = Append(replayed, [entry |-> evt, outcome |-> e.outcome,
                                           enq |-> e.enq])
    /\ handled' = handled + 1
    /\ UNCHANGED <<delivered, lastConv, call, result>>

NextReplay == \E evt \in ReplayEntries, resolverOk \in BOOLEAN : ReplayCall(evt, resolverOk)

SpecReplay == Init /\ [][NextReplay]_vars

(***************************************************************************)
(* Properties                                                              *)
(***************************************************************************)
\* The "message created" variant of the last entry, and its message union.
LastCreate == last.entry.ConvoDefs_LogCreateMessage

LastIsCreate == last.op = "HandleEvent" /\ ~IsNil(LastCreate)

LastMessage == Deref(Deref(LastCreate).Message)

LastHasBoth ==
    /\ LastIsCreate
    /\ ~IsNil(Deref(LastCreate).Message)
    /\ ~IsNil(LastMessage.ConvoDefs_MessageView)
    /\ ~IsNil(LastMessage.ConvoDefs_DeletedMessageView)

QueueIndexes == 1..Len(queue)

\* C1: a call of HandleEvent with an entry whose "message created" variant
\* is nil enqueues nothing and makes no call of the sender resolver, at any
\* point of any sequence of entries.
C1_OtherKindsAreNoOp ==
    [][(handled' = handled + 1 /\ IsNil(last'.entry.ConvoDefs_LogCreateMessage))
         => (queue' = queue /\ resolveCalls' = resolveCalls /\ last'.outcome = "ignored")]_vars

\* Two entries were handled, the last one a "message deleted" entry, and
\* nothing was enqueued or resolved.
C1_Witness ==
    /\ handled = 2
    /\ last.op = "HandleEvent"
    /\ IsNil(LastCreate)
    /\ ~IsNil(last.entry.ConvoDefs_LogDeleteMessage)
    /\ last.outcome = "ignored"
    /\ queue = <<>>
    /\ resolveCalls = 0

\* C2: a call of HandleEvent with a "message created" entry appends exactly one
\* message to the queue when a view is populated, the resolver succeeds and the
\* timestamp parses, and leaves the queue as it was when no view is populated,
\* when the resolver fails or when the timestamp does not parse; it calls the
\* resolver at most once.
C2_EnqueueIffExtracted ==
    [][(/\ handled' = handled + 1
        /\ ~IsNil(last'.entry.ConvoDefs_LogCreateMessage)
        /\ ~IsNil(Deref(last'.entry.ConvoDefs_LogCreateMessage).Message))
         => LET m       == Deref(Deref(last'.entry.ConvoDefs_LogCreateMessage).Message)
                neither == IsNil(m.ConvoDefs_MessageView) /\ IsNil(m.ConvoDefs_DeletedMessageView)
                v       == IF ~IsNil(m.ConvoDefs_MessageView) THEN Deref(m.ConvoDefs_MessageView)
                           ELSE Deref(m.ConvoDefs_DeletedMessageView)
                one     == /\ Len(queue') = Len(queue) + 1
                           /\ SubSeq(queue', 1, Len(queue)) = queue
                           /\ last'.outcome = "enqueued"
                none    == queue' = queue /\ last'.outcome = "dropped"
            IN /\ resolveCalls' - resolveCalls \in {0, 1}
               /\ neither => none
               /\ (~neither /\ ~IsNil(v.Sender) /\ ~last'.resolverOk) => none
               /\ (~neither /\ ~IsNil(v.Sender) /\ last'.resolverOk
                     /\ ParseDatetimeTime(v.SentAt).err # "") => none
               /\ (~neither /\ ~IsNil(v.Sender) /\ last'.resolverOk
                     /\ ParseDatetimeTime(v.SentAt).err = "") => one
               /\ last'.outcome # "enqueued" => queue' = queue]_vars

\* One entry was enqueued and a later one, whose sender resolved, was dropped
\* for its timestamp.
C2_Witness ==
    /\ handled = 2
    /\ Len(queue) = 1
    /\ LastIsCreate
    /\ last.outcome = "dropped"
    /\ last.resolverOk
    /\ resolveCalls = 2
    /\ ~IsNil(LastMessage.ConvoDefs_MessageView)
    /\ ParseDatetimeTime(Deref(LastMessage.ConvoDefs_MessageView).SentAt).err # ""

\* A payload of the active type with a view behind it.
IsActiveCall ==
    /\ call.fn = "convertMessage"
    /\ call.arg.type = T_MessageView
    /\ ~IsNil(call.arg.ptr)

ActiveView == Deref(call.arg.ptr)

TextPartsOf(view) == IF view.Text = "" THEN <<>> ELSE <<Part("m.text", view.Text, "", "")>>

\* The record pointer of the active view's embed, when it has a record view.
HasRecordView == ~IsNil(ActiveView.Embed) /\ ~IsNil(Deref(ActiveView.Embed).EmbedRecord_View)

RecordPtr == Deref(Deref(ActiveView.Embed).EmbedRecord_View).Record

\* C3: on an active payload whose embed's record is absent or of an
\* unhandled kind, convertMessage returns normally with the text part alone.
C3_UnresolvedEmbedIsOmitted ==
    (/\ IsActiveCall
     /\ HasRecordView
     /\ (IsNil(RecordPtr) \/ \E k \in UnhandledKinds : ~IsNil(Deref(RecordPtr)[k]))
     /\ result # Pending)
      => (result.outcome = "ok" /\ result.parts = TextPartsOf(ActiveView))

\* The quoted post of the embed resolves: the record is a view record with a
\* value in it.
EmbedResolves ==
    /\ HasRecordView
    /\ ~IsNil(RecordPtr)
    /\ ~IsNil(Deref(RecordPtr).EmbedRecord_ViewRecord)
    /\ ~IsNil(Deref(Deref(RecordPtr).EmbedRecord_ViewRecord).Value)

\* C4: on every active payload convertMessage returns the embed's part, when
\* there is an embed and it resolves, followed by the text part, when the body
\* is not empty.
C4_PartsAreEmbedThenText ==
    (IsActiveCall /\ result # Pending)
      => /\ result.outcome = "ok"
         /\ Len(result.parts) = (IF EmbedResolves THEN 1 ELSE 0)
                                + (IF ActiveView.Text = "" THEN 0 ELSE 1)
         /\ (ActiveView.Text # "" =>
               result.parts[Len(result.parts)] = Part("m.text", ActiveView.Text, "", ""))
         /\ (EmbedResolves => result.parts[1].Format = "org.matrix.custom.html")

\* C5: on every payload of the deleted type convertMessage returns exactly
\* one part, a notice with the body "Deleted message".
C5_DeletedIsOneNotice ==
    (call.fn = "convertMessage" /\ call.arg.type = T_DeletedMessageView /\ result # Pending)
      => /\ result.outcome = "ok"
         /\ Len(result.parts) = 1
         /\ result.parts[1].MsgType = "m.notice"
         /\ result.parts[1].Body = "Deleted message"

\* A deleted view with no sender, no id and no timestamp was converted.
C5_Witness ==
    /\ call.fn = "convertMessage"
    /\ call.arg = Iface(T_DeletedMessageView, Ptr(DeletedMessageView("", Nil, "")))
    /\ result # Pending
    /\ result.outcome = "ok"

\* C6: recordValueDecoder returns a string for every record value: the text
\* of a feed post, "not parsed" for anything else, the nil value included.
C6_DecoderNeverFails ==
    (call.fn = "recordValueDecoder" /\ result # Pending)
      => /\ result.outcome = "ok"
         /\ result.str = IF call.arg.type = T_FeedPost /\ ~IsNil(call.arg.ptr)
                         THEN Deref(call.arg.ptr).Text ELSE "not parsed"

\* The stream order so is the whole milliseconds of the instant t: so splits
\* back into t's day and second, and a millisecond that contains t's nanosecond.
IsFloorMillis(so, t) ==
    LET msOfDay == (so.hi % 864) * 100000 + so.lo
    IN /\ so.lo \in 0..99999
       /\ so.hi \div 864 = t.day
       /\ msOfDay \div 1000 = t.sod
       /\ (msOfDay % 1000) * 1000000 <= t.nsec
       /\ t.nsec < ((msOfDay % 1000) + 1) * 1000000

\* The instant one millisecond after t.
PlusOneMilli(t) ==
    LET n == t.nsec + 1000000
        s == t.sod + (n \div 1000000000)
    IN [day |-> t.day + (s \div 86400), sod |-> s % 86400, nsec |-> n % 1000000000]

\* C7 as stated: of two enqueued messages, the one with the earlier timestamp
\* has the strictly smaller stream order, however close the timestamps are.
C7_StrictlyMonotone ==
    \A i, j \in QueueIndexes :
        TimeBefore(queue[i].Timestamp, queue[j].Timestamp)
          => I64Less(queue[i].StreamOrder, queue[j].StreamOrder)

\* C7 amended: the stream order is the timestamp's whole milliseconds since
\* the epoch; of two enqueued messages the one with the earlier timestamp never
\* has the larger stream order, and has the strictly smaller one when the
\* timestamps are at least a millisecond apart.
C7_MonotoneByMillisecond ==
    /\ \A i \in QueueIndexes : IsFloorMillis(queue[i].StreamOrder, queue[i].Timestamp)
    /\ \A i, j \in QueueIndexes :
          TimeBefore(queue[i].Timestamp, queue[j].Timestamp)
            => /\ ~I64Less(queue[j].StreamOrder, queue[i].StreamOrder)
               /\ (~TimeBefore(queue[j].Timestamp, PlusOneMilli(queue[i].Timestamp))
                     => I64Less(queue[i].StreamOrder, queue[j].StreamOrder))

\* Two messages were enqueued out of timestamp order, one exactly a
\* millisecond before the other.
C7_Witness ==
    \E i, j \in QueueIndexes :
        /\ i > j
        /\ TimeBefore(queue[i].Timestamp, queue[j].Timestamp)
        /\ queue[j].Timestamp = PlusOneMilli(queue[i].Timestamp)
        /\ I64Less(queue[i].StreamOrder, queue[j].StreamOrder)

ReplayIndexes == 1..Len(replayed)

\* The replayed entry i is a "message created" entry with a message.
IsReplayedMessage(i) ==
    /\ ~IsNil(replayed[i].entry.ConvoDefs_LogCreateMessage)
    /\ ~IsNil(Deref(replayed[i].entry.ConvoDefs_LogCreateMessage).Message)

ReplayedCreate(i) == Deref(replayed[i].entry.ConvoDefs_LogCreateMessage)

\* The view of the replayed entry i that the message is built from: the
\* active one when present, else the deleted one.
ReplayedView(i) ==
    LET m == Deref(ReplayedCreate(i).Message)
    IN IF ~IsNil(m.ConvoDefs_MessageView) THEN Deref(m.ConvoDefs_MessageView)
       ELSE Deref(m.ConvoDefs_DeletedMessageView)

\* The pair (conversation id, remote message id) of the replayed entry i.
ReplayedPair(i) == <<ReplayedCreate(i).ConvoId, ReplayedView(i).Id>>

IsReplayedEnqueue(i) == IsReplayedMessage(i) /\ replayed[i].outcome = "enqueued"

\* C8: whenever two handled entries with the same pair (conversation id,
\* remote message id) are both enqueued, each enqueues exactly one message
\* and the two messages carry the same message id, whatever the entries'
\* revision, sender, timestamp and payload, whether an earlier delivery of
\* the pair was dropped, and however many other entries were handled in
\* between.
C8_SamePairSameId ==
    \A i, j \in ReplayIndexes :
        (/\ IsReplayedEnqueue(i)
         /\ IsReplayedEnqueue(j)
         /\ ReplayedPair(i) = ReplayedPair(j))
          => /\ Len(replayed[i].enq) = 1
             /\ Len(replayed[j].enq) = 1
             /\ replayed[i].enq[1].ID = replayed[j].enq[1].ID

\* An entry was dropped (d); the same pair was then enqueued under another
\* revision, sender, timestamp and payload (p); an entry of another pair was
\* enqueued in between (o); the dropped entry was delivered again and
\* enqueued (r); and the entry enqueued first was delivered again and
\* enqueued (q): the three messages of the pair carry one id, and the message
\* of the other pair another.
C8_Witness ==
    \E d, p, o, r, q \in ReplayIndexes :
        /\ d < p /\ p < o /\ o < r /\ r < q
        /\ IsReplayedMessage(d) /\ replayed[d].outcome = "dropped"
        /\ IsReplayedEnqueue(p) /\ IsReplayedEnqueue(o)
        /\ IsReplayedEnqueue(r) /\ IsReplayedEnqueue(q)
        /\ replayed[r].entry = replayed[d].entry
        /\ replayed[q].entry = replayed[p].entry
        /\ ReplayedPair(p) = ReplayedPair(r)
        /\ ReplayedPair(o) # ReplayedPair(r)
        /\ ReplayedCreate(p).Rev # ReplayedCreate(r).Rev
        /\ replayed[p].enq[1].Sender # replayed[r].enq[1].Sender
        /\ replayed[p].enq[1].Timestamp # replayed[r].enq[1].Timestamp
        /\ replayed[p].enq[1].Data.type # replayed[r].enq[1].Data.type
        /\ replayed[p].enq[1].ID = replayed[r].enq[1].ID
        /\ replayed[r].enq[1].ID = replayed[q].enq[1].ID
        /\ replayed[o].enq[1].ID # replayed[r].enq[1].ID

\* C9: every enqueued message carries a non-nil active or deleted view, the
\* one of the entry it came from, and no conversion of a queued message takes
\* the default branch of convertMessage.
C9_PayloadIsActiveOrDeleted ==
    /\ \A i \in QueueIndexes :
          /\ queue[i].Data.type \in {T_MessageView, T_DeletedMessageView}
          /\ ~IsNil(queue[i].Data.ptr)
    /\ (last.op = "HandleEvent" /\ last.outcome = "enqueued")
         => queue[Len(queue)].Data \in
               {Iface(T_MessageView, LastMessage.ConvoDefs_MessageView),
                Iface(T_DeletedMessageView, LastMessage.ConvoDefs_DeletedMessageView)}
    /\ lastConv.index > 0
         => /\ lastConv.result.outcome = "ok" => lastConv.result.branch # "default"
            /\ lastConv.result.outcome = "ok" =>
                 \A k \in 1..Len(lastConv.result.parts) :
                    lastConv.result.parts[k].Body # "Unsupported message"

\* An active and a deleted message were enqueued and both converted.
C9_Witness ==
    /\ Len(queue) = 2
    /\ queue[1].Data.type = T_MessageView
    /\ queue[2].Data.type = T_DeletedMessageView
    /\ lastConv.index = 2
    /\ lastConv.result.outcome = "ok"
    /\ lastConv.result.branch = "DeletedMessageView"

\* C10: when both views of an entry are populated, the enqueued message has
\* the id, sender, timestamp and payload of the active view, an active view
\* whose timestamp does not parse drops the entry whatever the deleted view
\* holds, and the message is converted by the active branch.
C10_ActiveWinsOverDeleted ==
    LastHasBoth =>
        LET active == Deref(LastMessage.ConvoDefs_MessageView)
            m      == queue[Len(queue)]
        IN /\ last.outcome = "enqueued" =>
                /\ m.LogContext.message_id = active.Id
                /\ m.Sender.Sender = Deref(active.Sender).Did
                /\ m.Timestamp = ParseDatetimeTime(active.SentAt).t
                /\ ParseDatetimeTime(active.SentAt).err = ""
                /\ m.Data = Iface(T_MessageView, LastMessage.ConvoDefs_MessageView)
           /\ (last.resolverOk /\ ParseDatetimeTime(active.SentAt).err # "")
                => last.outcome = "dropped"
           /\ (last.outcome = "enqueued" /\ lastConv.index = Len(queue))
                => /\ lastConv.result.outcome = "ok"
                   /\ lastConv.result.branch = "MessageView"
                   /\ \A k \in 1..Len(lastConv.result.parts) :
                         lastConv.result.parts[k].Body # "Deleted message"

\* An entry with both views, whose deleted view differs from the active one
\* in id, sender and timestamp, was enqueued and converted.
C10_Witness ==
    /\ LastHasBoth
    /\ last.outcome = "enqueued"
    /\ Deref(LastMessage.ConvoDefs_DeletedMessageView).Id
         # Deref(LastMessage.ConvoDefs_MessageView).Id
    /\ Deref(LastMessage.ConvoDefs_DeletedMessageView).SentAt
         # Deref(LastMessage.ConvoDefs_MessageView).SentAt
    /\ lastConv.index = Len(queue)
    /\ lastConv.result.outcome = "ok"
    /\ lastConv.result.branch = "MessageView"
=============================================================================
